---------------------------- MODULE Spec2Model ----------------------------
(***************************************************************************)
(* A model of pycharge.py (ChatbotEngine, Topic, Rule, Target).            *)
(*                                                                         *)
(* Text is a sequence of one-character strings.  A Python value that may   *)
(* be None is a record [some |-> BOOLEAN, v |-> value].  An attribute that *)
(* has never been assigned is the string "unset" (cache_built) or the      *)
(* record Unset.                                                           *)
(***************************************************************************)
EXTENDS Integers, Sequences, FiniteSets, TLC

VARIABLES
    cache_built,    \* self.cache_built: "unset" until load_scripts assigns it
    topics,         \* self._topics: topic name -> Topic
    botvars,        \* self._botvars
    uservars,       \* self._uservars: user -> variable dictionary
    depth_limit,    \* self._depth_limit
    stack,          \* the active reply invocations, outermost first
    match,          \* Script.match, the class attribute reply assigns
    target,         \* a Target constructed outside reply: [made, substitutions,
                    \* t], the substitutions argument and the object
    last            \* the most recent call on the engine: [op, dir, out], op
                    \* the method, dir what load_scripts found at its
                    \* argument (whether it is a directory, and the names of
                    \* the script classes its files registered), out "ok" or
                    \* the exception that left the call ("running" while
                    \* reply is active)

vars == <<cache_built, topics, botvars, uservars, depth_limit, stack, match, target, last>>

----------------------------------------------------------------------------
(* Bounds of the model *)

\* the interpreter's recursion limit, counted in nested reply frames
StackLimit == 4
\* the constructor's depth argument
DepthArg == 2
\* the largest number of script files in a directory
MaxFiles == 2
\* the largest weight given to @pattern where rules are compared
MaxWeight == 2
\* the largest number of words in a text a Target is constructed from
MaxWords == 35

\* re.UNICODE, which Target passes where re.split expects maxsplit and
\* re.sub expects count
RE_UNICODE == 32

----------------------------------------------------------------------------
(* Python values *)

None == [some |-> FALSE, v |-> <<>>]
Some(x) == [some |-> TRUE, v |-> x]
Unset == [set |-> FALSE, v |-> <<>>]
Assigned(x) == [set |-> TRUE, v |-> x]

----------------------------------------------------------------------------
(* Target: normalization of a message *)

Space == {" ", "\t"}
UpperToLower == ("H" :> "h") @@ ("I" :> "i") @@ ("R" :> "r") @@ ("B" :> "b")
\* \w: letters, digits and the underscore
WordChars == {"a", "b", "d", "e", "g", "h", "i", "l", "m", "n", "o", "r", "t", "u", "y",
              "0", "1", "_"}
                \cup DOMAIN UpperToLower
\* \W: everything else
NonWordChars == Space \cup {"!", ":", ")", "'", ","}

\* str.lower() of one word
Lower(word) ==
    [i \in 1..Len(word) |->
        IF word[i] \in DOMAIN UpperToLower THEN UpperToLower[word[i]] ELSE word[i]]

RECURSIVE DropWhile(_, _)
DropWhile(s, set) ==
    IF s # <<>> /\ s[1] \in set THEN DropWhile(Tail(s), set) ELSE s

\* re.split('\s+', text, maxsplit): cut at the first maxsplit runs of
\* whitespace; what follows the last cut stays one piece
RECURSIVE SplitRec(_, _)
SplitRec(s, n) ==
    LET at == {i \in 1..Len(s) : s[i] \in Space}
    IN IF at = {} \/ n = 0 THEN <<s>>
       ELSE LET i == CHOOSE j \in at : \A k \in at : j <= k
            IN <<SubSeq(s, 1, i - 1)>>
               \o SplitRec(DropWhile(SubSeq(s, i, Len(s)), Space), n - 1)

ReSplit(text, maxsplit) == SplitRec(text, maxsplit)

\* re.sub("[\W]+", "", word, count): delete the first count runs of
\* characters that are not letters, digits or underscore
RECURSIVE KillRec(_, _)
KillRec(s, n) ==
    IF s = <<>> THEN <<>>
    ELSE IF s[1] \in WordChars THEN <<s[1]>> \o KillRec(Tail(s), n)
    ELSE IF n > 0 THEN KillRec(DropWhile(s, NonWordChars), n - 1)
    ELSE s

_kill_non_alphanumerics(word) == KillRec(word, RE_UNICODE)

\* Target._do_substitutions: [raises, v].  With substitutions = None the
\* word alone; otherwise the method reads self._substitutions, an attribute
\* no Target has, and AttributeError leaves it
_do_substitutions(word, substitutions) ==
    IF ~substitutions.some
    THEN [raises |-> FALSE, v |-> <<word>>]
    ELSE [raises |-> TRUE, v |-> <<>>]

RECURSIVE JoinSp(_)
JoinSp(ws) ==
    IF ws = <<>> THEN <<>>
    ELSE IF Len(ws) = 1 THEN ws[1]
    ELSE ws[1] \o <<" ">> \o JoinSp(Tail(ws))

\* Target.__init__: the attributes of the object, and raises when an
\* exception leaves the constructor (the attributes after orig_words are
\* then never assigned)
Target(text, substitutions) ==
    LET orig_words == ReSplit(text, RE_UNICODE)
        lc_words == [i \in 1..Len(orig_words) |-> Lower(orig_words[i])]
        subs == [i \in 1..Len(lc_words) |-> _do_substitutions(lc_words[i], substitutions)]
        raises == \E i \in 1..Len(subs) : subs[i].raises
        sub_words == [i \in 1..Len(subs) |-> subs[i].v]
        tokenized_words ==
            [i \in 1..Len(sub_words) |->
                [j \in 1..Len(sub_words[i]) |-> _kill_non_alphanumerics(sub_words[i][j])]]
    IN [raises |-> raises,
        orig_text |-> text,
        orig_words |-> orig_words,
        tokenized_words |-> IF raises THEN <<>> ELSE tokenized_words,
        normalized |-> IF raises THEN <<>>
                       ELSE JoinSp([i \in 1..Len(tokenized_words) |->
                                       JoinSp(tokenized_words[i])])]

----------------------------------------------------------------------------
(* The pattern grammar (PatternParser), which the engine uses through      *)
(* parse, format, score and regex.  A raw pattern is a sequence of tokens  *)
(* [k, v]: k = "lit" a literal word, "star" the wildcard, "alt" a          *)
(* reference to the alternate named v, "ws" redundant white space, "bad"   *)
(* a syntax error.                                                         *)

Lit(w) == [k |-> "lit", v |-> w]
Star == [k |-> "star", v |-> "*"]
Alt(a) == [k |-> "alt", v |-> a]
Ws == [k |-> "ws", v |-> " "]
Bad == [k |-> "bad", v |-> "("]

\* the spelling of the words patterns and alternates are written with
Spell == ("hi" :> <<"h", "i">>) @@ ("red" :> <<"r", "e", "d">>)
         @@ ("green" :> <<"g", "r", "e", "e", "n">>)
         @@ ("blue" :> <<"b", "l", "u", "e">>) @@ ("bye" :> <<"b", "y", "e">>)

\* PatternParser.parse: fails (PatternError) on a syntax error, otherwise
\* the tree of the tokens as written
ParseFails(raw) == \E i \in 1..Len(raw) : raw[i].k = "bad"
Parse(raw) == raw

\* PatternParser.format: the canonical text of a tree, which holds no
\* redundant white space
Format(tree) == SelectSeq(tree, LAMBDA t : t.k # "ws")

\* PatternParser.score: the number of literal words
Score(tree) == Len(SelectSeq(tree, LAMBDA t : t.k = "lit"))

\* PatternParser.regex: fails (PatternVariableNotFoundError) when the tree
\* names an alternate the table lacks; otherwise every reference is
\* replaced by the alternate's words
RegexFails(tree, alternates) ==
    \E i \in 1..Len(tree) : tree[i].k = "alt" /\ tree[i].v \notin DOMAIN alternates
Regex(tree, alternates) ==
    LET t == Format(tree)
    IN [i \in 1..Len(t) |->
          IF t[i].k = "alt" THEN [k |-> "any", v |-> alternates[t[i].v]]
          ELSE IF t[i].k = "lit" THEN [k |-> "word", v |-> {t[i].v}]
          ELSE [k |-> "star", v |-> {}]]

\* the words of a normalized string: the pieces between single spaces
RECURSIVE WordsRec(_, _)
WordsRec(s, cur) ==
    IF s = <<>> THEN <<cur>>
    ELSE IF s[1] = " " THEN <<cur>> \o WordsRec(Tail(s), <<>>)
    ELSE WordsRec(Tail(s), Append(cur, s[1]))

\* re.match of a compiled regex (anchored at both ends) on the words
RECURSIVE MatchWords(_, _)
MatchWords(rx, ws) ==
    IF rx = <<>> THEN ws = <<>>
    ELSE IF ws = <<>> THEN FALSE
    ELSE IF rx[1].k = "star"
         THEN ws[1] # <<>> /\ (MatchWords(Tail(rx), Tail(ws)) \/ MatchWords(rx, Tail(ws)))
         ELSE (\E w \in rx[1].v : Spell[w] = ws[1]) /\ MatchWords(Tail(rx), Tail(ws))

ReMatch(regexc, normalized) == MatchWords(regexc, WordsRec(normalized, <<>>))

\* the words a wildcard takes when rx matches ws: as many as leave a match
\* for the rest
StarTakes(rx, ws) ==
    CHOOSE n \in 1..Len(ws) :
        /\ \A i \in 1..n : ws[i] # <<>>
        /\ MatchWords(Tail(rx), SubSeq(ws, n + 1, Len(ws)))
        /\ \A m \in (n + 1)..Len(ws) :
              ~(/\ \A i \in 1..m : ws[i] # <<>>
                /\ MatchWords(Tail(rx), SubSeq(ws, m + 1, Len(ws))))

\* the texts captured by the groups of rx on the words it matches: one group
\* for every wildcard and every alternate
RECURSIVE GroupsRec(_, _)
GroupsRec(rx, ws) ==
    IF rx = <<>> THEN <<>>
    ELSE IF rx[1].k = "star"
         THEN LET n == StarTakes(rx, ws)
              IN <<JoinSp(SubSeq(ws, 1, n))>> \o GroupsRec(Tail(rx), SubSeq(ws, n + 1, Len(ws)))
    ELSE IF rx[1].k = "any" THEN <<ws[1]>> \o GroupsRec(Tail(rx), Tail(ws))
    ELSE GroupsRec(Tail(rx), Tail(ws))

\* m.groupdict() of a successful re.match: the groups are named match0,
\* match1, ...; the name matchN is the pair <<"match", N>>
GroupDict(regexc, normalized) ==
    LET g == GroupsRec(regexc, WordsRec(normalized, <<>>))
    IN [k \in {<<"match", i>> : i \in 0..(Len(g) - 1)} |-> g[k[2] + 1]]

----------------------------------------------------------------------------
(* Rule *)

\* Rule.__init__ raises PatternError
RuleFails(raw_pattern, raw_previous) ==
    ParseFails(raw_pattern) \/ (raw_previous # <<>> /\ ParseFails(raw_previous))

\* Rule.__init__: the result of format on the previous tree is dropped, so
\* formatted_previous stays None; regexc is assigned by _get_regexc only
Rule(raw_pattern, raw_previous, weight, rule, rulename) ==
    LET pattern_tree == Parse(raw_pattern)
        previous_tree == IF raw_previous # <<>> THEN Some(Parse(raw_previous)) ELSE None
    IN [pattern_tree |-> pattern_tree,
        previous_tree |-> previous_tree,
        weight |-> weight,
        rule |-> rule,
        rulename |-> rulename,
        formatted_pattern |-> Format(pattern_tree),
        formatted_previous |-> None,
        score |-> Score(pattern_tree),
        pattern_regexc |-> None,
        previous_regexc |-> None,
        regexc |-> Unset]

\* Rule._get_regexc: compiles the pattern tree whatever parsetree is given,
\* stores it in self.regexc and returns None on both paths
_get_regexc(self, parsetree, alternates) ==
    IF RegexFails(self.pattern_tree, alternates)
    THEN [self |-> self, ret |-> None]
    ELSE [self |-> [self EXCEPT !.regexc = Assigned(Regex(self.pattern_tree, alternates))],
          ret |-> None]

\* Rule.cache_regexes
cache_regexes(self, alternates) ==
    LET a == _get_regexc(self, Some(self.pattern_tree), alternates)
        s1 == [a.self EXCEPT !.pattern_regexc = a.ret]
        b == _get_regexc(s1, self.previous_tree, alternates)
    IN [b.self EXCEPT !.previous_regexc = b.ret]

\* a comparison that forgets the score
RuleLtWeightOnly(a, b) == a.weight < b.weight

\* an equality that also compares the handlers
RuleEqWithHandler(a, b) == a.weight = b.weight /\ a.score = b.score /\ a.rule = b.rule

\* Rule.__lt__, __eq__, __gt__
RuleLt(a, b) == a.weight < b.weight \/ (a.weight = b.weight /\ a.score < b.score)
RuleEq(a, b) == a.weight = b.weight /\ a.score = b.score
RuleGt(a, b) == a.weight > b.weight \/ (a.weight = b.weight /\ a.score > b.score)

----------------------------------------------------------------------------
(* Topic.  sortedrules holds references to the Rule objects of rules; a    *)
(* reference is the rule's key in rules.                                   *)

Topic == [rules |-> <<>>, sortedrules |-> <<>>, alternates |-> <<>>]

\* ChatbotEngine._new_topic
_new_topic(T, topic) ==
    [t \in DOMAIN T \cup {topic} |-> IF t = topic THEN Topic ELSE T[t]]

\* lines 81-82 and 119-120: the "all" topic with the built-in alternate
AllTopicOnly ==
    LET T == _new_topic(<<>>, "all")
    IN [T EXCEPT !["all"].alternates = ("colors" :> {"red", "green", "blue"})]

\* an insertion for sorted(list) without reverse=True: ascending order
RECURSIVE InsertAscending(_, _, _)
InsertAscending(sorted, x, rules) ==
    IF sorted = <<>> THEN <<x>>
    ELSE IF RuleLt(rules[x], rules[sorted[1]]) THEN <<x>> \o sorted
    ELSE <<sorted[1]>> \o InsertAscending(Tail(sorted), x, rules)

\* sorted(list, reverse=True): stable, descending, comparing with < only
RECURSIVE InsertReverse(_, _, _)
InsertReverse(sorted, x, rules) ==
    IF sorted = <<>> THEN <<x>>
    ELSE IF RuleLt(rules[sorted[1]], rules[x]) THEN <<x>> \o sorted
    ELSE <<sorted[1]>> \o InsertReverse(Tail(sorted), x, rules)

RECURSIVE SortedReverse(_, _)
SortedReverse(list, rules) ==
    IF list = <<>> THEN <<>>
    ELSE InsertReverse(SortedReverse(SubSeq(list, 1, Len(list) - 1), rules),
                       list[Len(list)], rules)

\* the orders in which dict.items() may list the keys of a dictionary
RECURSIVE Items(_)
Items(keys) ==
    IF keys = {} THEN {<<>>}
    ELSE UNION {{<<k>> \o s : s \in Items(keys \ {k})} : k \in keys}

----------------------------------------------------------------------------
(* Scripts: what load_scripts finds in a directory.  A script class is     *)
(* [name, topic, init, setup, methods]: init = "raise" when instantiating  *)
(* it or its setUp raises, setup the bot variables its setUp assigns,      *)
(* methods its attributes in dir() order.  A method is [attr, prefix, sig, *)
(* pattern, previous, weight, handler]; two attributes with the same       *)
(* handler are the same bound method.                                      *)

Method(attr, pattern, previous, weight, handler) ==
    [attr |-> attr, prefix |-> "pattern", sig |-> "ok", pattern |-> pattern,
     previous |-> previous, weight |-> weight, handler |-> handler]

\* what calling a handler does: return a value, raise, or call reply again
\* on a message and return what it returns
T_hi_red == <<"H", "i", " ", " ", "r", "e", "d", "!">>
T_bye == <<"b", "y", "e">>
T_smile == <<":", ")">>
Messages == {T_hi_red, T_bye, T_smile}

Handlers ==
    ("hYes" :> [kind |-> "return", val |-> Some("yes"), msg |-> <<>>])
    @@ ("hNo" :> [kind |-> "return", val |-> Some("no"), msg |-> <<>>])
    @@ ("hNone" :> [kind |-> "return", val |-> [some |-> FALSE, v |-> ""], msg |-> <<>>])
    @@ ("hRaise" :> [kind |-> "raise", val |-> [some |-> FALSE, v |-> ""], msg |-> <<>>])
    @@ ("hLoop" :> [kind |-> "reply", val |-> [some |-> FALSE, v |-> ""], msg |-> T_hi_red])

Greet ==
    [name |-> "Greet", topic |-> "all", init |-> "ok", setup |-> <<>>,
     methods |-> <<Method("pattern_any", <<Star>>, <<>>, 0, "hNo"),
                   Method("pattern_hi", <<Lit("hi"), Ws, Star>>, <<>>, 0, "hYes"),
                   Method("pattern_hi_again", <<Lit("hi"), Star>>, <<>>, 0, "hYes")>>]
Boss ==
    [name |-> "Boss", topic |-> "all", init |-> "ok", setup |-> <<>>,
     methods |-> <<Method("pattern_crash", <<Lit("hi"), Alt("colors")>>, <<>>, 5, "hRaise"),
                   Method("pattern_hi", <<Lit("hi"), Star>>, <<>>, 3, "hNone")>>]
Loop ==
    [name |-> "Loop", topic |-> "all", init |-> "ok", setup |-> <<>>,
     methods |-> <<Method("pattern_loop", <<Lit("hi"), Lit("red")>>, <<>>, 3, "hLoop")>>]
Farewell ==
    [name |-> "Farewell", topic |-> "all", init |-> "ok", setup |-> <<>>,
     methods |-> <<Method("pattern_a", <<Lit("bye")>>, <<Alt("nosuch")>>, 2, "hYes"),
                   Method("pattern_b", <<Lit("bye")>>, <<Lit("hi")>>, 4, "hNo"),
                   Method("pattern_c", <<Alt("nosuch")>>, <<>>, 1, "hYes")>>]
Other ==
    [name |-> "Other", topic |-> "t2", init |-> "ok", setup |-> ("mood" :> "happy"),
     methods |-> <<[Method("alternate_x", <<>>, <<>>, 0, "hYes") EXCEPT !.prefix = "alternate"],
                   [Method("pattern_bad", <<Bad>>, <<>>, 0, "hYes") EXCEPT !.sig = "ok"],
                   [Method("pattern_nosig", <<Star>>, <<>>, 0, "hYes") EXCEPT !.sig = "bad"],
                   Method("pattern_star", <<Star>>, <<>>, 9, "hNo"),
                   [Method("substitute_x", <<>>, <<>>, 0, "hYes") EXCEPT !.prefix = "substitute"]>>]
Broken ==
    [name |-> "Broken", topic |-> "t2", init |-> "raise", setup |-> <<>>, methods |-> <<>>]

\* a .py file and the Script subclasses it defines: import_ok = FALSE when
\* importing it raises
File(classes) == [import_ok |-> TRUE, classes |-> classes]
BadFile == [import_ok |-> FALSE, classes |-> <<>>]
Files ==
    {File(<<Greet>>), File(<<Boss>>), File(<<Loop>>), File(<<Farewell>>),
     File(<<Other>>), File(<<Broken>>), BadFile}

\* the .py files os.listdir lists, out of files: up to MaxFiles of them,
\* each once, in any order
ListingsOf(files) ==
    {fs \in UNION {[1..n -> files] : n \in 0..MaxFiles} :
        \A i, j \in DOMAIN fs : i # j => fs[i] # fs[j]}

\* the arguments of load_scripts: a path that is no directory, and the
\* directories holding some of files
DirectoriesOf(files) ==
    {[isdir |-> FALSE, files |-> <<>>]}
    \cup {[isdir |-> TRUE, files |-> fs] : fs \in ListingsOf(files)}

\* the directories whose files all import
Directories == DirectoriesOf({f \in Files : f.import_ok})

\* what load_scripts finds at its argument: whether it is a directory, and
\* the names of the classes in ScriptRegistrar.registry after the imports
NoDirectory == [isdir |-> FALSE, classes |-> {}]
Last(op, out) == [op |-> op, dir |-> NoDirectory, out |-> out]

Users == {"u1"}
TopicNames == {"all", "t2"}

----------------------------------------------------------------------------
(* ChatbotEngine: loading *)

Put(f, k, x) == (k :> x) @@ f

\* ChatbotEngine._check_pattern_spec
_check_pattern_spec(m) == m.sig = "ok"

\* the bound method getattr(instance, attribute)
BoundMethod(cls, m) == [self |-> cls.name, func |-> m.handler]

\* a registration that overwrites the rule already under the key
_load_pattern_overwriting(T, topic, cls, m) ==
    IF ~_check_pattern_spec(m) THEN T
    ELSE IF RuleFails(m.pattern, m.previous) THEN T
    ELSE LET rule == Rule(m.pattern, m.previous, m.weight, BoundMethod(cls, m),
                          <<cls.name, m.attr>>)
             tup == <<rule.formatted_pattern, rule.formatted_previous>>
         IN [T EXCEPT ![topic].rules = Put(@, tup, rule)]

\* ChatbotEngine._load_pattern: the topics after the call
_load_pattern(T, topic, cls, m) ==
    IF ~_check_pattern_spec(m) THEN T
    ELSE IF RuleFails(m.pattern, m.previous) THEN T
    ELSE LET rule == Rule(m.pattern, m.previous, m.weight, BoundMethod(cls, m),
                          <<cls.name, m.attr>>)
             tup == <<rule.formatted_pattern, rule.formatted_previous>>
         IN IF tup \in DOMAIN T[topic].rules
            THEN T
            ELSE [T EXCEPT ![topic].rules = Put(@, tup, rule)]

\* ChatbotEngine._load_alternate, _load_substitute
_load_alternate(T, topic, cls, m) == T
_load_substitute(T, topic, cls, m) == T

\* the dispatch loop of _load_script over the attributes from index i on
RECURSIVE LoadAttributes(_, _, _, _)
LoadAttributes(T, topic, cls, i) ==
    IF i > Len(cls.methods) THEN T
    ELSE LET m == cls.methods[i]
             T1 == IF m.prefix = "pattern" THEN _load_pattern(T, topic, cls, m)
                   ELSE IF m.prefix = "alternate" THEN _load_alternate(T, topic, cls, m)
                   ELSE IF m.prefix = "substitute" THEN _load_substitute(T, topic, cls, m)
                   ELSE T
         IN LoadAttributes(T1, topic, cls, i + 1)

\* ChatbotEngine._load_script on the engine state S = [topics, botvars,
\* raised]: the state after the call, raised when an exception leaves it
_load_script(S, cls) ==
    LET topic == cls.topic
        T1 == IF topic \notin DOMAIN S.topics THEN _new_topic(S.topics, topic) ELSE S.topics
    IN IF cls.init = "raise"
       THEN [topics |-> T1, botvars |-> S.botvars, raised |-> TRUE]
       ELSE [topics |-> LoadAttributes(T1, topic, cls, 1),
             botvars |-> cls.setup @@ S.botvars,
             raised |-> FALSE]

\* ScriptRegistrar.registry after the import loop: the classes of the files
\* whose import succeeded
RECURSIVE Registry(_)
Registry(files) ==
    IF files = <<>> THEN <<>>
    ELSE (IF files[1].import_ok THEN files[1].classes ELSE <<>>) \o Registry(Tail(files))

\* the loop of load_scripts over the registry, left by the first exception
RECURSIVE LoadRegistry(_, _)
LoadRegistry(S, registry) ==
    IF registry = <<>> \/ S.raised THEN S
    ELSE LoadRegistry(_load_script(S, registry[1]), Tail(registry))

\* a reset that re-creates "all" and forgets to drop the other topics
ResetTopicsKeepingOthers(T) ==
    [t \in DOMAIN T \cup {"all"} |-> IF t = "all" THEN AllTopicOnly["all"] ELSE T[t]]

Found(directory) ==
    LET registry == Registry(directory.files)
    IN [isdir |-> directory.isdir,
        classes |-> {registry[n].name : n \in 1..Len(registry)}]

\* the topics load_scripts starts from
ResetTopics(T) == AllTopicOnly

\* a load_scripts that leaves the cache flag as it was
load_scripts_keeping_flag(directory) ==
    IF ~directory.isdir
    THEN /\ last' = [op |-> "load_scripts", dir |-> Found(directory), out |-> "ok"]
         /\ UNCHANGED <<cache_built, topics, botvars, uservars>>
    ELSE LET S == LoadRegistry([topics |-> ResetTopics(topics), botvars |-> botvars,
                                raised |-> FALSE],
                               Registry(directory.files))
         IN /\ cache_built' = cache_built
            /\ topics' = S.topics
            /\ botvars' = S.botvars
            /\ last' = [op |-> "load_scripts", dir |-> Found(directory),
                        out |-> IF S.raised THEN "Exception" ELSE "ok"]
            /\ UNCHANGED uservars

\* ChatbotEngine.load_scripts
load_scripts(directory) ==
    IF ~directory.isdir
    THEN /\ last' = [op |-> "load_scripts", dir |-> Found(directory), out |-> "ok"]
         /\ UNCHANGED <<cache_built, topics, botvars, uservars>>
    ELSE LET S == LoadRegistry([topics |-> ResetTopics(topics), botvars |-> botvars,
                                raised |-> FALSE],
                               Registry(directory.files))
         IN /\ cache_built' = "False"
            /\ topics' = S.topics
            /\ botvars' = S.botvars
            /\ last' = [op |-> "load_scripts", dir |-> Found(directory),
                        out |-> IF S.raised THEN "Exception" ELSE "ok"]
            /\ UNCHANGED uservars

\* load_scripts called from outside on one of the directories
LoadScriptsOf(directories) ==
    /\ stack = <<>>
    /\ \E directory \in directories : load_scripts(directory)
    /\ UNCHANGED <<depth_limit, stack, match, target>>

LoadScripts == LoadScriptsOf(Directories)

----------------------------------------------------------------------------
(* ChatbotEngine: the cache *)

\* the body of build_cache when the flag is false: every topic sorted from
\* the order items[t] in which its dictionary lists the rules, and every
\* rule compiled against the topic's alternates
BuiltTopics(T, items) ==
    [t \in DOMAIN T |->
        [T[t] EXCEPT
            !.sortedrules = SortedReverse(items[t], T[t].rules),
            !.rules = [k \in DOMAIN T[t].rules |->
                          cache_regexes(T[t].rules[k], T[t].alternates)]]]

\* one order per topic, for the topics in names
RECURSIVE ItemOrdersOf(_, _)
ItemOrdersOf(T, names) ==
    IF names = {} THEN {<<>>}
    ELSE LET t == CHOOSE n \in names : TRUE
         IN {(t :> s) @@ f : s \in Items(DOMAIN T[t].rules),
                             f \in ItemOrdersOf(T, names \ {t})}

ItemOrders(T) == ItemOrdersOf(T, DOMAIN T)

\* ChatbotEngine.build_cache: reading the unassigned flag raises
\* AttributeError; otherwise the topics after the call
build_cache_raises(cb) == cb = "unset"
build_cache(cb, T, items) == IF cb = "True" THEN T ELSE BuiltTopics(T, items)

\* the topics build_cache may leave: with the flag set no dictionary is
\* listed, otherwise one result for every order of every dictionary
BuildCacheOutcomes(cb, T) ==
    IF cb = "True" THEN {build_cache(cb, T, <<>>)}
    ELSE {build_cache(cb, T, items) : items \in ItemOrders(T)}

BuildCache ==
    /\ stack = <<>>
    /\ IF build_cache_raises(cache_built)
       THEN /\ last' = Last("build_cache", "AttributeError: cache_built")
            /\ UNCHANGED <<cache_built, topics>>
       ELSE /\ topics' \in BuildCacheOutcomes(cache_built, topics)
            /\ cache_built' = "True"
            /\ last' = Last("build_cache", "ok")
    /\ UNCHANGED <<botvars, uservars, depth_limit, stack, match, target>>

----------------------------------------------------------------------------
(* ChatbotEngine: reply.  A frame of stack is one active invocation:       *)
(* [user, depth, first, normalized, idx, m, reply, done, invoked], idx the *)
(* position of the for loop in the "all" topic's sortedrules, m the groups *)
(* of the match object of the last re.match (None when it failed), invoked *)
(* handlers it has called, each [i, out] with out "active", "return" or    *)
(* "raise", first whether _set_user found the user absent.                 *)

\* a str that renders the empty reply like None
StrEmptyAsNone(value) == IF value.some /\ value.v # "" THEN value.v ELSE "None"

\* str(reply)
Str(value) == IF value.some THEN value.v ELSE "None"

\* a _set_user that replaces the entry of a user whose topic is gone
_set_user_replacing_entry(U, T, user) ==
    LET U1 == IF user \notin DOMAIN U THEN Put(U, user, ("__topic__" :> "all")) ELSE U
    IN IF U1[user]["__topic__"] \notin DOMAIN T
       THEN [U1 EXCEPT ![user] = ("__topic__" :> "all")]
       ELSE U1

\* ChatbotEngine._set_user: uservars after the call
_set_user(U, T, user) ==
    LET U1 == IF user \notin DOMAIN U THEN Put(U, user, ("__topic__" :> "all")) ELSE U
    IN IF U1[user]["__topic__"] \notin DOMAIN T
       THEN [U1 EXCEPT ![user]["__topic__"] = "all"]
       ELSE U1

\* ChatbotEngine._set_topic, for one of the users
SetTopicOf(users) ==
    /\ stack = <<>>
    /\ \E user \in users, topic \in TopicNames :
         IF user \notin DOMAIN uservars
         THEN last' = Last("_set_topic", "KeyError") /\ UNCHANGED uservars
         ELSE /\ last' = Last("_set_topic", "ok")
              /\ uservars' = [uservars EXCEPT ![user]["__topic__"] = topic]
    /\ UNCHANGED <<cache_built, topics, botvars, depth_limit, stack, match, target>>

\* ChatbotEngine._match_dict: the group named matchN under the integer N
_match_dict(re_dict) ==
    [i \in {k[2] : k \in DOMAIN re_dict} |-> re_dict[<<"match", i>>]]

\* lines 253-254: the frame when the for loop starts
NewFrame(user, message, depth, first) ==
    [user |-> user, depth |-> depth, first |-> first,
     normalized |-> Target(message, None).normalized,
     idx |-> 1, m |-> None, reply |-> Some(""), done |-> FALSE, invoked |-> <<>>]

SortedAll == topics["all"].sortedrules
RuleAt(i) == topics["all"].rules[SortedAll[i]]
Top == stack[Len(stack)]
Finished(f) == f.done \/ f.idx > Len(SortedAll)

\* lines 256-257: the rule under the loop matches the target; a rule whose
\* regexc was never assigned has no attribute to read
MatchRaises(rule) == ~rule.regexc.set
Matches(rule, normalized) == rule.regexc.set /\ ReMatch(rule.regexc.v, normalized)

\* line 262: the handler is called
Invoke(f) == [f EXCEPT !.invoked = Append(@, [i |-> f.idx, out |-> "active"])]
\* lines 262, 269: the handler returned value; break
OnReturn(f, value) ==
    [f EXCEPT !.invoked[Len(f.invoked)].out = "return", !.reply = value, !.done = TRUE]
\* a loop that breaks where the code continues
OnRaiseBreak(f) ==
    [f EXCEPT !.invoked[Len(f.invoked)].out = "raise", !.done = TRUE]
\* lines 263-268: the handler raised; log and continue with the next rule
OnRaise(f) ==
    [f EXCEPT !.invoked[Len(f.invoked)].out = "raise", !.idx = @ + 1]

ReplaceTop(f) == [stack EXCEPT ![Len(stack)] = f]
Pop == SubSeq(stack, 1, Len(stack) - 1)

\* reply(user, message) called from outside by one of the users:
\* _set_user, build_cache, Target, up to the start of the for loop
ReplyOf(users) ==
    /\ stack = <<>>
    /\ LET built == BuildCacheOutcomes(cache_built, topics)
       IN \E user \in users, message \in Messages :
            /\ uservars' = _set_user(uservars, topics, user)
            /\ IF build_cache_raises(cache_built)
               THEN /\ last' = Last("reply", "AttributeError: cache_built")
                    /\ UNCHANGED <<cache_built, topics, stack>>
               ELSE /\ topics' \in built
                    /\ cache_built' = "True"
                    /\ stack' = <<NewFrame(user, message, 0, user \notin DOMAIN uservars)>>
                    /\ last' = Last("reply", "running")
    /\ UNCHANGED <<botvars, depth_limit, match, target>>

Reply == ReplyOf(Users)

\* a scan of the topic the user is in
ScanUserTopic(U, user) == U[user]["__topic__"]

\* line 255: the topic whose sortedrules the for loop runs over
ScanTopic(U, user) == "all"
ScanRules(T, U, f) == T[ScanTopic(U, f.user)]
FinishedIn(T, U, f) == f.done \/ f.idx > Len(ScanRules(T, U, f).sortedrules)

\* one iteration of the for loop of the innermost invocation of stk, on
\* the topics T and the user variables U: the stack, Script.match and the
\* record of the last call after it
ScanStep(T, U, stk, mt, lst) ==
    LET n == Len(stk)
        f0 == stk[n]
        scanned == ScanRules(T, U, f0)
        rule == scanned.rules[scanned.sortedrules[f0.idx]]
        h == Handlers[rule.rule.func]
        \* line 256: m = re.match(rule.regexc, target.normalized)
        f == IF Matches(rule, f0.normalized)
             THEN [f0 EXCEPT !.m = Some(GroupDict(rule.regexc.v, f0.normalized))]
             ELSE [f0 EXCEPT !.m = None]
        put(g) == [stk EXCEPT ![n] = g]
    IN IF MatchRaises(rule)
       THEN \* AttributeError leaves this invocation: the caller is the
            \* handler of the enclosing invocation, or the outside
            [stack |-> IF n = 1 THEN <<>>
                       ELSE [SubSeq(stk, 1, n - 1) EXCEPT ![n - 1] = OnRaise(@)],
             match |-> mt,
             last |-> IF n = 1 THEN Last("reply", "AttributeError: regexc") ELSE lst]
       ELSE [stack |->
                IF ~f.m.some THEN put([f EXCEPT !.idx = @ + 1])
                ELSE IF h.kind = "return" THEN put(OnReturn(Invoke(f), h.val))
                ELSE IF h.kind = "raise" THEN put(OnRaise(Invoke(f)))
                ELSE IF n >= StackLimit
                THEN \* the interpreter's recursion limit: RuntimeError
                     \* inside the handler
                     put(OnRaise(Invoke(f)))
                ELSE \* the handler calls reply(user, msg, depth + 1)
                     Append(put(Invoke(f)), NewFrame(f.user, h.msg, f.depth + 1, FALSE)),
             \* line 260: Script.match = self._match_dict(m.groupdict())
             match |-> IF f.m.some THEN Assigned(_match_dict(f.m.v)) ELSE mt,
             last |-> lst]

Scan ==
    /\ stack # <<>>
    /\ ~FinishedIn(topics, uservars, Top)
    /\ LET r == ScanStep(topics, uservars, stack, match, last)
       IN stack' = r.stack /\ match' = r.match /\ last' = r.last
    /\ UNCHANGED <<cache_built, topics, botvars, uservars, depth_limit, target>>

\* lines 270-273: the innermost invocation returns str(reply), to the
\* handler that called it (which returns it in turn) or to the outside
Return ==
    /\ stack # <<>>
    /\ Finished(Top)
    /\ stack' = IF Len(stack) = 1 THEN <<>>
                ELSE [Pop EXCEPT ![Len(stack) - 1] = OnReturn(@, Some(Str(Top.reply)))]
    /\ last' = IF Len(stack) = 1 THEN Last("reply", "ok") ELSE last
    /\ UNCHANGED <<cache_built, topics, botvars, uservars, depth_limit, match, target>>

----------------------------------------------------------------------------
\* ChatbotEngine.__init__ with debug = False and depth = DepthArg
Init ==
    /\ cache_built = "unset"
    /\ topics = AllTopicOnly
    /\ botvars = ("debug" :> "False")
    /\ uservars = <<>>
    /\ depth_limit = DepthArg
    /\ stack = <<>>
    /\ match = Unset
    /\ target = [made |-> FALSE, substitutions |-> None, t |-> Target(<<>>, None)]
    /\ last = Last("__init__", "ok")

Next == LoadScripts \/ BuildCache \/ Reply \/ Scan \/ Return

Spec == Init /\ [][Next]_vars

----------------------------------------------------------------------------
(* Properties of reply *)

Frames == {stack[n] : n \in 1..Len(stack)}
AllRules == topics["all"].rules
MatchingRules(normalized) == {k \in DOMAIN AllRules : Matches(AllRules[k], normalized)}

\* the rule at position i of the scan matches, and no matching rule of the
\* topic outranks it
HighestAmong(i, keys, normalized) ==
    /\ Matches(RuleAt(i), normalized)
    /\ \A k \in keys : Matches(AllRules[k], normalized) => ~RuleGt(AllRules[k], RuleAt(i))

\* the keys of the rules whose handlers f called before its j-th call
TriedBefore(f, j) == {SortedAll[f.invoked[n].i] : n \in 1..(j - 1)}

\* C1, as claimed: when several rules match the normalized input, reply
\* invokes the handler of the rule that ranks highest (weight, then score)
\* and no other handler.
C1_OnlyHighestInvoked ==
    \A f \in Frames :
        /\ Len(f.invoked) <= 1
        /\ \A j \in DOMAIN f.invoked : HighestAmong(f.invoked[j].i, DOMAIN AllRules, f.normalized)
        /\ (Finished(f) /\ MatchingRules(f.normalized) # {}) => f.invoked # <<>>

\* C1, amended: the first handler reply invokes is that of a matching rule
\* that no matching rule outranks, whatever the registration order; a
\* further handler is invoked only after the one before it raised, and it
\* is that of a matching rule that no matching rule not yet tried outranks.
C1_HighestInvokedFirst ==
    \A f \in Frames : \A j \in DOMAIN f.invoked :
        /\ HighestAmong(f.invoked[j].i, DOMAIN AllRules \ TriedBefore(f, j), f.normalized)
        /\ j > 1 => f.invoked[j - 1].out = "raise"

\* C1 witness: a reply has returned from the one handler it invoked while
\* rules of different rank matched the input.
C1_Witness ==
    \E f \in Frames :
        /\ f.done /\ Len(f.invoked) = 1 /\ f.invoked[1].out = "return"
        /\ \E k \in MatchingRules(f.normalized) : RuleLt(AllRules[k], RuleAt(f.invoked[1].i))

C3_DepthBounded ==
    /\ Len(stack) <= depth_limit + 1
    /\ \A f \in Frames : f.depth <= depth_limit

\* C4: reply returns normally in every engine state, a freshly constructed
\* engine included: no exception leaves it.
C4_ReplyNeverRaises ==
    last.op = "reply" => last.out \in {"running", "ok"}

\* C5: a rule left with no compiled regex is skipped by the scan, which
\* goes on to the lower rules: reading its regex raises nothing, in the
\* outermost reply or in a nested one.
C5_UncompiledRuleSkipped ==
    [][(stack # <<>> /\ ~Finished(Top) /\ ~RuleAt(Top.idx).regexc.set)
          => (Len(stack') = Len(stack) /\ stack'[Len(stack)].idx = Top.idx + 1)]_vars

\* C6: a rule whose previous pattern names an alternate its topic lacks
\* never matches: its handler is never invoked.
C6_BadPreviousNeverMatches ==
    \A f \in Frames : \A j \in DOMAIN f.invoked :
        LET rule == RuleAt(f.invoked[j].i)
        IN ~(rule.previous_tree.some
             /\ RegexFails(rule.previous_tree.v, topics["all"].alternates))

\* C7: a rule that declares a previous pattern is selected only if its
\* pattern matches the message and its previous pattern matches the
\* context of the prior turn; so never on a user's first turn, when there
\* is no prior turn for the previous pattern to match.
C7_PreviousIsPrecondition ==
    \A f \in Frames : \A j \in DOMAIN f.invoked :
        LET rule == RuleAt(f.invoked[j].i)
        IN rule.previous_tree.some
               => (Matches(rule, f.normalized) /\ ~f.first)

\* C11: match state is rebuilt from the groups of each successful match and
\* is visible to the handler invoked for that match only: when a nested
\* reply made by a handler is about to return to it, Script.match holds the
\* groups of that handler's own match, and once reply has returned to the
\* outside no match state is exposed any more.
C11_MatchStateScoped ==
    /\ stack = <<>> => ~match.set
    /\ (Len(stack) >= 2 /\ Finished(Top))
          => LET caller == stack[Len(stack) - 1]
             IN caller.m.some /\ match = Assigned(_match_dict(caller.m.v))

----------------------------------------------------------------------------
(* Registration, one _load_pattern call at a time, as _load_script makes   *)
(* them: into the topic of the script class, created first if absent.      *)

Classes == {Greet, Boss, Loop, Farewell, Other}

\* what _load_pattern reports through _say: an error, the duplicate
\* warning, the debug line of a loaded pattern, or nothing
_load_pattern_says(T, topic, cls, m) ==
    IF ~_check_pattern_spec(m) \/ RuleFails(m.pattern, m.previous) THEN "Error"
    ELSE LET rule == Rule(m.pattern, m.previous, m.weight, BoundMethod(cls, m),
                          <<cls.name, m.attr>>)
             tup == <<rule.formatted_pattern, rule.formatted_previous>>
         IN IF tup \in DOMAIN T[topic].rules
            THEN IF BoundMethod(cls, m) # T[topic].rules[tup].rule THEN "Warning" ELSE "ok"
            ELSE "Loaded"

RegNewTopic ==
    /\ \E cls \in Classes :
         /\ cls.topic \notin DOMAIN topics
         /\ topics' = _new_topic(topics, cls.topic)
    /\ last' = Last("_new_topic", "ok")
    /\ UNCHANGED <<cache_built, botvars, uservars, depth_limit, stack, match, target>>

RegStep(cls, m) ==
    /\ cls.topic \in DOMAIN topics
    /\ m.prefix = "pattern"
    /\ topics' = _load_pattern(topics, cls.topic, cls, m)
    /\ last' = Last("_load_pattern", _load_pattern_says(topics, cls.topic, cls, m))

RegLoadPattern ==
    /\ \E cls \in Classes : \E i \in DOMAIN cls.methods : RegStep(cls, cls.methods[i])
    /\ UNCHANGED <<cache_built, botvars, uservars, depth_limit, stack, match, target>>

NextReg == RegNewTopic \/ RegLoadPattern

SpecReg == Init /\ [][NextReg]_vars

\* the identity the data model gives a rule: its formatted pattern and its
\* formatted previous pattern (None when it declares none)
RulePair(rule) ==
    <<Format(rule.pattern_tree),
      IF rule.previous_tree.some THEN Some(Format(rule.previous_tree.v)) ELSE None>>
MethodPair(m) ==
    <<Format(Parse(m.pattern)),
      IF m.previous # <<>> THEN Some(Format(Parse(m.previous))) ELSE None>>
Registrable(m) == _check_pattern_spec(m) /\ ~RuleFails(m.pattern, m.previous)
Registered(T, topic, pair) == \E k \in DOMAIN T[topic].rules : RulePair(T[topic].rules[k]) = pair

\* C8: registering a rule whose (formatted pattern, formatted previous)
\* pair equals that of a registered rule of the topic never replaces it:
\* the registry is unchanged, and with a different handler the
\* registration is refused with the duplicate warning.
C8_DuplicateKeepsFirst ==
    [][\A cls \in Classes : \A i \in DOMAIN cls.methods :
          LET m == cls.methods[i]
          IN (RegStep(cls, m) /\ Registrable(m)
                  /\ Registered(topics, cls.topic, MethodPair(m)))
              => /\ topics' = topics
                 /\ last'.out \in {"Warning", "ok"}
                 /\ (last'.out = "Warning") <=>
                        (\A k \in DOMAIN topics[cls.topic].rules :
                            RulePair(topics[cls.topic].rules[k]) = MethodPair(m)
                                => topics[cls.topic].rules[k].rule # BoundMethod(cls, m))]_vars

\* C8 witness: a registration was refused as the duplicate of a registered
\* rule with another handler, and that rule is still registered.
C8_Witness ==
    /\ last = Last("_load_pattern", "Warning")
    /\ \A k \in DOMAIN topics["all"].rules :
          topics["all"].rules[k].rulename = <<"Greet", "pattern_hi">>
    /\ DOMAIN topics["all"].rules # {}

\* C9: a registration is a duplicate only if both its formatted pattern
\* and its formatted previous equal those of a registered rule; a valid
\* registration whose pair no registered rule of the topic has is
\* registered.
C9_IdentityIsPatternAndPrevious ==
    [][\A cls \in Classes : \A i \in DOMAIN cls.methods :
          LET m == cls.methods[i]
          IN (RegStep(cls, m) /\ Registrable(m)
                  /\ ~Registered(topics, cls.topic, MethodPair(m)))
              => Registered(topics', cls.topic, MethodPair(m))]_vars

----------------------------------------------------------------------------
(* Properties of load_scripts *)

\* the step is a call of load_scripts on a valid directory
LoadStep == last'.op = "load_scripts" /\ last'.dir.isdir

\* the script classes the files of the catalogue define, and those a call
\* of load_scripts found
ScriptClasses == UNION {{f.classes[n] : n \in 1..Len(f.classes)} : f \in Files}
ClassesOf(d) == {c \in ScriptClasses : c.name \in d.classes}

\* after the step nothing of an earlier load is left: the topics are
\* "all", with the built-in alternate only, and topics of the directory's
\* scripts, with no alternates; every rule comes from a script of the
\* directory registered under its topic, and nothing is compiled or sorted
TopicsRebuilt(d) ==
    /\ "all" \in DOMAIN topics'
    /\ topics'["all"].alternates = ("colors" :> {"red", "green", "blue"})
    /\ \A t \in DOMAIN topics' :
          /\ t = "all" \/ \E c \in ClassesOf(d) : c.topic = t
          /\ t # "all" => DOMAIN topics'[t].alternates = {}
          /\ topics'[t].sortedrules = <<>>
          /\ \A k \in DOMAIN topics'[t].rules :
                /\ ~topics'[t].rules[k].regexc.set
                /\ \E c \in ClassesOf(d) :
                      c.topic = t /\ c.name = topics'[t].rules[k].rulename[1]

\* C10, as claimed: load_scripts on a valid directory drops the topics,
\* rules and alternates loaded before, re-creates "all" with the built-in
\* "colors" alternate, and leaves botvars and uservars unchanged.
C10_LoadLeavesVariables ==
    [][LoadStep => /\ TopicsRebuilt(last'.dir)
                   /\ botvars' = botvars
                   /\ uservars' = uservars]_vars

\* C10, amended: load_scripts on a valid directory drops the topics, rules
\* and alternates loaded before and re-creates "all" with the built-in
\* "colors" alternate; it leaves every uservars entry unchanged and keeps
\* every botvars entry, whose values change only by what the setUp of a
\* loaded script assigns.
C10_LoadKeepsVariables ==
    [][LoadStep =>
          /\ TopicsRebuilt(last'.dir)
          /\ uservars' = uservars
          /\ DOMAIN botvars \subseteq DOMAIN botvars'
          /\ \A k \in DOMAIN botvars' :
                \/ k \in DOMAIN botvars /\ botvars'[k] = botvars[k]
                \/ \E c \in ClassesOf(last'.dir) :
                      k \in DOMAIN c.setup /\ botvars'[k] = c.setup[k]]_vars

\* C10 witness: a load has dropped the topic "t2" of an earlier load (whose
\* script set the bot variable "mood") while users are known.
C10_Witness ==
    /\ cache_built = "False"
    /\ last.op = "load_scripts" /\ last.dir.isdir /\ last.out = "ok"
    /\ "mood" \in DOMAIN botvars /\ "t2" \notin DOMAIN topics
    /\ DOMAIN topics["all"].rules # {}
    /\ DOMAIN uservars # {}

----------------------------------------------------------------------------
(* Loading from directories in which a file may fail to import: the engine *)
(* is loaded again and again, and the cache built in between.              *)

LoadDirectories == DirectoriesOf(Files)

LoadAny == LoadScriptsOf(LoadDirectories)

NextLoad == LoadAny \/ BuildCache

SpecLoad == Init /\ [][NextLoad]_vars

\* a rule with the formatted pattern of method m is registered in the topic
PatternRegistered(T, topic, m) ==
    /\ topic \in DOMAIN T
    /\ \E k \in DOMAIN T[topic].rules :
          T[topic].rules[k].formatted_pattern = Format(Parse(m.pattern))

\* C12: when a script fails to load, on the import of its file or when its
\* class is instantiated and set up, load_scripts logs the error, still
\* loads the rules of every other script of the directory, and returns
\* normally.
C12_LoadToleratesFailure ==
    [][LoadStep =>
          /\ last'.out = "ok"
          /\ \A c \in ClassesOf(last'.dir) :
                c.init = "ok" =>
                    \A i \in DOMAIN c.methods :
                        (c.methods[i].prefix = "pattern" /\ Registrable(c.methods[i]))
                            => PatternRegistered(topics', c.topic, c.methods[i])]_vars

----------------------------------------------------------------------------
(* Properties of the cache and of the engine's dictionaries *)

\* no topic holds a rule
ZeroRules == \A t \in DOMAIN topics : DOMAIN topics[t].rules = {}

\* C13: after load_scripts has loaded zero rules, reply on any user and any
\* message returns the empty string without raising: it invokes no handler,
\* what it is about to return is "", and no exception leaves it.
C13_NoRulesEmptyReply ==
    (cache_built # "unset" /\ ZeroRules) =>
        /\ last.op = "reply" => last.out \in {"running", "ok"}
        /\ \A f \in Frames :
              Finished(f) /\ f.invoked = <<>> /\ ~f.m.some /\ Str(f.reply) = ""

\* C13 witness: reply has returned on an engine whose last load found no
\* rule.
C13_Witness ==
    /\ cache_built = "True" /\ ZeroRules
    /\ last.op = "reply" /\ last.out = "ok"
    /\ DOMAIN uservars # {}

\* the step is a call of build_cache, or the start of a call of reply from
\* outside (which calls build_cache)
BuildStep == last'.op = "build_cache"
ReplyStep == stack = <<>> /\ last'.op = "reply"

\* the cache of T is built from the rules of T0: every topic's sortedrules
\* lists the keys of its rules, each once, and every rule is the rule of
\* T0 compiled against the alternates of its topic
CacheBuiltFrom(T, T0) ==
    /\ DOMAIN T = DOMAIN T0
    /\ \A t \in DOMAIN T :
          /\ DOMAIN T[t].rules = DOMAIN T0[t].rules
          /\ Len(T[t].sortedrules) = Cardinality(DOMAIN T0[t].rules)
          /\ {T[t].sortedrules[i] : i \in 1..Len(T[t].sortedrules)} = DOMAIN T0[t].rules
          /\ \A k \in DOMAIN T[t].rules :
                /\ T[t].rules[k] = cache_regexes(T0[t].rules[k], T0[t].alternates)
                /\ T[t].rules[k].regexc.set <=>
                       ~RegexFails(T0[t].rules[k].pattern_tree, T0[t].alternates)

\* C17: build_cache is idempotent: with the flag set, build_cache and
\* reply compile nothing and leave every topic as it is; load_scripts on a
\* directory clears the flag and leaves nothing sorted or compiled, and
\* the next build_cache or reply builds the cache from the rules then
\* loaded.
C17_CacheIdempotent ==
    [][/\ ((BuildStep \/ ReplyStep) /\ cache_built = "True")
             => (topics' = topics /\ cache_built' = "True")
       /\ LoadStep
             => /\ cache_built' = "False"
                /\ \A t \in DOMAIN topics' :
                      /\ topics'[t].sortedrules = <<>>
                      /\ \A k \in DOMAIN topics'[t].rules : ~topics'[t].rules[k].regexc.set
       /\ ((BuildStep \/ ReplyStep) /\ cache_built = "False")
             => (cache_built' = "True" /\ CacheBuiltFrom(topics', topics))]_vars

\* C17 witness: reply has returned from a cache rebuilt after a reload: an
\* earlier load had registered the script of topic "t2", which the load
\* the cache is built from dropped.
C17_Witness ==
    /\ cache_built = "True"
    /\ last.op = "reply" /\ last.out = "ok"
    /\ "mood" \in DOMAIN botvars /\ "t2" \notin DOMAIN topics
    /\ Len(SortedAll) >= 2

\* sortedrules of the topic lists the keys of its rules, each once, and no
\* rule in it is lower in (weight, score) than a rule after it
CacheFresh(topic) ==
    LET s == topic.sortedrules
        r == topic.rules
    IN /\ Len(s) = Cardinality(DOMAIN r)
       /\ {s[i] : i \in 1..Len(s)} = DOMAIN r
       /\ \A i, j \in 1..Len(s) : i < j => ~RuleLt(r[s[i]], r[s[j]])

\* C20: whenever the cache-built flag is true, the sortedrules of every
\* topic holds exactly the rules currently in the topic's rules mapping,
\* each once, in non-increasing order of (weight, score): no sequence of
\* load_scripts (a non-directory argument included), build_cache and reply
\* leaves the flag true over a stale or incomplete sortedrules.
C20_CacheNeverStale ==
    cache_built = "True" => \A t \in DOMAIN topics : CacheFresh(topics[t])

\* C20 witness: load_scripts has just been rejected for a non-directory
\* argument while the flag is true, over two topics with rules, one of
\* them holding rules of different rank.
C20_Witness ==
    /\ cache_built = "True"
    /\ last.op = "load_scripts" /\ ~last.dir.isdir
    /\ "t2" \in DOMAIN topics /\ topics["t2"].sortedrules # <<>>
    /\ \E i, j \in 1..Len(SortedAll) : RuleGt(RuleAt(i), RuleAt(j))

----------------------------------------------------------------------------
(* The user variables: two users talk to an engine whose scripts are       *)
(* reloaded from directories with and without a script of topic "t2",      *)
(* and variables other than the topic are written into their entries.      *)

TwoUsers == {"u1", "u2"}
UsersDirectories ==
    {[isdir |-> TRUE, files |-> fs] :
        fs \in {<<>>, <<File(<<Other>>)>>, <<File(<<Greet>>)>>,
                 <<File(<<Greet>>), File(<<Other>>)>>}}

UsersLoadScripts == LoadScriptsOf(UsersDirectories)
UsersSetTopic == SetTopicOf(TwoUsers)
UsersReply == ReplyOf(TwoUsers)

\* a variable of a known user is written, as handlers and the host may
UsersSetVar ==
    /\ stack = <<>>
    /\ \E user \in TwoUsers :
          /\ user \in DOMAIN uservars
          /\ uservars' = [uservars EXCEPT ![user] = Put(@, "name", "x")]
    /\ last' = Last("uservars", "ok")
    /\ UNCHANGED <<cache_built, topics, botvars, depth_limit, stack, match, target>>

NextUsers == UsersLoadScripts \/ UsersSetTopic \/ UsersSetVar \/ UsersReply \/ Scan \/ Return

SpecUsers == Init /\ [][NextUsers]_vars

\* C19: when reply(u, ...) begins scanning, uservars[u] exists and its
\* __topic__ names an existing topic: an absent entry is created as
\* {__topic__: "all"}, a stored topic that no longer exists is reset to
\* "all", a valid topic and every other key are left as they are, and no
\* other user's entry is touched.
C19_SetUserCreatesOrRepairs ==
    [][(stack = <<>> /\ stack' # <<>>) =>
          LET u == stack'[1].user
          IN /\ DOMAIN uservars' = DOMAIN uservars \cup {u}
             /\ uservars'[u]["__topic__"] \in DOMAIN topics'
             /\ u \notin DOMAIN uservars => uservars'[u] = ("__topic__" :> "all")
             /\ u \in DOMAIN uservars =>
                   /\ DOMAIN uservars'[u] = DOMAIN uservars[u]
                   /\ \A k \in DOMAIN uservars[u] \ {"__topic__"} :
                         uservars'[u][k] = uservars[u][k]
                   /\ uservars'[u]["__topic__"] =
                         IF uservars[u]["__topic__"] \in DOMAIN topics
                         THEN uservars[u]["__topic__"] ELSE "all"
             /\ \A v \in DOMAIN uservars \ {u} : uservars'[v] = uservars[v]]_vars

\* C19 witness: reply is scanning for a known user who is in topic "all"
\* and keeps another variable, on an engine that has no topic "t2", while
\* the other user's entry still names "t2".
C19_Witness ==
    /\ stack # <<>> /\ stack[1].user = "u1" /\ ~stack[1].first
    /\ uservars["u1"] = Put(("__topic__" :> "all"), "name", "x")
    /\ "u2" \in DOMAIN uservars /\ uservars["u2"]["__topic__"] = "t2"
    /\ "t2" \notin DOMAIN topics

\* the topic "t2" as the script Other leaves it once the cache is built
OtherTopicBuilt ==
    LET S == _load_script([topics |-> AllTopicOnly, botvars |-> <<>>, raised |-> FALSE], Other)
        items == CHOOSE o \in ItemOrders(S.topics) : TRUE
    IN BuiltTopics(S.topics, items)["t2"]

\* the engine states that differ from the present one only in the rules of
\* topics other than "all", and then only in the topic stored for a user
TopicVariants(T) ==
    {("all" :> T["all"]),
     ("all" :> T["all"]) @@ ("t2" :> Topic),
     ("all" :> T["all"]) @@ ("t2" :> OtherTopicBuilt)}
UserVariants(U, T) ==
    {[U EXCEPT ![u]["__topic__"] = t] : u \in DOMAIN U, t \in DOMAIN T}

\* C18: the result of reply depends only on the rules of the "all" topic:
\* in any engine state that differs from the present one only in a user's
\* stored __topic__ or in the rules of other topics, every iteration of
\* the scan does the same (same handler invoked, same reply, same match
\* state, same exception), and the scan ends at the same point with the
\* same string to return.
C18_ReplyDependsOnAllOnly ==
    stack # <<>> =>
        \A T2 \in TopicVariants(topics) : \A U2 \in UserVariants(uservars, T2) :
            /\ FinishedIn(T2, U2, Top) <=> FinishedIn(topics, uservars, Top)
            /\ ~FinishedIn(topics, uservars, Top)
                  => ScanStep(T2, U2, stack, match, last)
                         = ScanStep(topics, uservars, stack, match, last)

\* C18 witness: a handler of the "all" topic has returned the reply for a
\* user whose stored topic is "t2", while "t2" holds a rule that matches
\* the message and outranks every rule of "all".
C18_Witness ==
    \E f \in Frames :
        /\ f.done /\ f.invoked # <<>>
        /\ uservars[f.user]["__topic__"] = "t2"
        /\ "t2" \in DOMAIN topics
        /\ \E k \in DOMAIN topics["t2"].rules :
              /\ Matches(topics["t2"].rules[k], f.normalized)
              /\ \A j \in DOMAIN AllRules : RuleGt(topics["t2"].rules[k], AllRules[j])

----------------------------------------------------------------------------
(* The comparison operators of Rule, on rules of any weight: a script      *)
(* whose methods carry the patterns below with weights 0..MaxWeight is     *)
(* registered one _load_pattern call at a time.                            *)

OrdPatterns == {<<Star>>, <<Lit("hi")>>, <<Lit("hi"), Star>>, <<Lit("hi"), Lit("red")>>}
OrdScript == [name |-> "Ord", topic |-> "all", init |-> "ok", setup |-> <<>>, methods |-> <<>>]

OrdLoadPattern ==
    /\ \E p \in OrdPatterns, w \in 0..MaxWeight, h \in {"hYes", "hNo"} :
          LET m == Method("pattern_ord", p, <<>>, w, h)
          IN /\ topics' = _load_pattern(topics, "all", OrdScript, m)
             /\ last' = Last("_load_pattern", _load_pattern_says(topics, "all", OrdScript, m))
    /\ UNCHANGED <<cache_built, botvars, uservars, depth_limit, stack, match, target>>

NextOrd == OrdLoadPattern

SpecOrd == Init /\ [][NextOrd]_vars

RulesOf(topic) == {topics[topic].rules[k] : k \in DOMAIN topics[topic].rules}

\* C14: the comparison operators of Rule form a strict weak ordering on
\* (weight, score): < is irreflexive and transitive, == holds exactly when
\* weight and score are both equal, whatever the handlers, and for any two
\* rules exactly one of <, ==, > holds.
C14_StrictWeakOrdering ==
    \A a \in RulesOf("all") :
        /\ ~RuleLt(a, a)
        /\ \A b \in RulesOf("all") :
              /\ RuleEq(a, b) <=> (a.weight = b.weight /\ a.score = b.score)
              /\ RuleGt(a, b) <=> RuleLt(b, a)
              /\ \/ RuleLt(a, b) /\ ~RuleEq(a, b) /\ ~RuleGt(a, b)
                 \/ ~RuleLt(a, b) /\ RuleEq(a, b) /\ ~RuleGt(a, b)
                 \/ ~RuleLt(a, b) /\ ~RuleEq(a, b) /\ RuleGt(a, b)
              /\ \A c \in RulesOf("all") :
                    (RuleLt(a, b) /\ RuleLt(b, c)) => RuleLt(a, c)

\* C14 witness: rules are registered of which two have the same weight and
\* score with different handlers, one has a lower weight, and one has the
\* same weight and a lower score.
C14_Witness ==
    \E a, b, c, d \in RulesOf("all") :
        /\ a # b /\ RuleEq(a, b) /\ a.rule # b.rule
        /\ c.weight < a.weight /\ RuleLt(c, a)
        /\ d.weight = a.weight /\ d.score < a.score /\ RuleLt(d, a)

----------------------------------------------------------------------------
(* Target constructed on its own: texts of 1..MaxWords words, with and     *)
(* without a substitution table.                                           *)

W_a == <<"a">>
W_Im == <<"I", "'", "m">>
W_Hi == <<"H", "i", "!">>
T_tired == <<"I", "'", "m", " ", "t", "i", "r", "e", "d", " ",
             "t", "o", "d", "a", "y", "!">>

\* n words, w1 and w2 in turn, with sep between them
RECURSIVE TextOf(_, _, _, _)
TextOf(n, w1, w2, sep) ==
    IF n = 1 THEN w1 ELSE w1 \o sep \o TextOf(n - 1, w2, w1, sep)

Texts ==
    {T_tired} \cup
    {TextOf(n, w1, w2, sep) : n \in 1..MaxWords, w1 \in {W_a, W_Im, W_Hi},
                              w2 \in {W_a, W_Im, W_Hi}, sep \in {<<" ">>, <<" ", "\t">>}}

\* the substitutions argument: None, an empty table, or "i'm" -> "i am"
ImTable == (<<"i", "'", "m">> :> <<"i", " ", "a", "m">>)
SubstitutionTables == {None, Some(<<>>), Some(ImTable)}

\* Target(text, substitutions): the object is constructed once
NewTarget ==
    /\ ~target.made
    /\ \E text \in Texts, substitutions \in SubstitutionTables :
          target' = [made |-> TRUE, substitutions |-> substitutions,
                     t |-> Target(text, substitutions)]
    /\ UNCHANGED <<cache_built, topics, botvars, uservars, depth_limit, stack, match, last>>

NextTarget == NewTarget

SpecTarget == Init /\ [][NextTarget]_vars

\* the whitespace-separated words of a text, and a word without the
\* characters that are not letters, digits or underscore
WordsOf(text) == ReSplit(text, Len(text))
Alnum(word) == SelectSeq(word, LAMBDA c : c \in WordChars)

\* the group the claim gives a word under a table: the words of its
\* replacement when its lower-cased form is a key, itself otherwise
GroupOf(word, table) ==
    LET lw == Lower(word)
        ws == IF lw \in DOMAIN table THEN WordsOf(table[lw]) ELSE <<lw>>
    IN [j \in 1..Len(ws) |-> Alnum(ws[j])]

\* C15: normalizing a message with a substitution table replaces each word
\* whose lower-cased form is a key of the table by the words of its
\* replacement, kept as one group under that word; "I'm tired today!" with
\* "i'm" -> "i am" yields [[i, am], [tired], [today]] and "i am tired
\* today".
C15_SubstitutionsApplied ==
    (target.made /\ target.substitutions.some) =>
        LET t == target.t
            w == WordsOf(t.orig_text)
        IN /\ ~t.raises
           /\ t.tokenized_words = [i \in 1..Len(w) |-> GroupOf(w[i], target.substitutions.v)]
           /\ (t.orig_text = T_tired /\ target.substitutions.v = ImTable) =>
                  /\ t.tokenized_words =
                         <<<<<<"i">>, <<"a", "m">>>>, <<<<"t", "i", "r", "e", "d">>>>,
                           <<<<"t", "o", "d", "a", "y">>>>>>
                  /\ t.normalized = <<"i", " ", "a", "m", " ", "t", "i", "r", "e", "d", " ",
                                      "t", "o", "d", "a", "y">>

\* C16: for a message of any number n of whitespace-separated words, with
\* no substitutions, normalization yields n original words and n token
\* groups in the order of the words and never merges adjacent words: the
\* one token of group i is made of characters of word i only.
C16_WordsNeverMerged ==
    (target.made /\ ~target.substitutions.some) =>
        LET t == target.t
            w == WordsOf(t.orig_text)
        IN /\ ~t.raises
           /\ t.orig_words = w
           /\ Len(t.tokenized_words) = Len(w)
           /\ \A i \in 1..Len(t.tokenized_words) :
                 /\ Len(t.tokenized_words[i]) = 1
                 /\ i <= Len(w) => t.tokenized_words[i][1] = Alnum(Lower(w[i]))

=============================================================================
